---- MODULE Spec2Model ----
(***************************************************************************)
(* Model of the hook state store of nilsmartel/act (src/hook.rs; the file  *)
(* src/hooks.rs is the same design, two lines shorter from line 109 on). *)
(*                                                                         *)
(* STATE_TREE is a process-wide Mutex<StateTree>.  A Hook (cursor,         *)
(* counter) issues state requests with Hook::use_state; every successful   *)
(* request returns a set_value closure capturing (cursor, index) and the   *)
(* static type T.  Hook threads and setter threads interleave at the       *)
(* granularity of lock acquisitions.  A panic unwinds the thread: guards   *)
(* it holds are dropped, a Mutex (or a write-locked RwLock) whose guard is *)
(* dropped during a panic becomes poisoned.                                *)
(***************************************************************************)
EXTENDS Integers, Sequences, FiniteSets, TLC

\* ---------------------------------------------------------------- bounds
MaxCounter == 2    \* a Hook issues requests while its counter is below
MaxSets == 2       \* setter invocations that are counted

\* Threads; each may own one Hook and may invoke set_value closures.
Procs == {"t1", "t2"}
None == "none"

\* ---------------------------------------------------------------- values
\* A Box<dyn Any + Send>: the concrete type (TypeId) and the payload.
Types == {"str", "int"}
AnyBox == {[ty |-> "str", v |-> 1], [ty |-> "str", v |-> 2],
           [ty |-> "int", v |-> 1]}
NoVal == [ty |-> None, v |-> 0]

\* the cursors Hooks are built with: the root and its (missing) first child
Paths == {<<>>, <<0>>}

\* the counters Hooks are built with
Starts == {0, 1}

VARIABLES
    tree,      \* the StateTree inside STATE_TREE
    mutex,     \* STATE_TREE's Mutex: holder and poison flag
    hooks,     \* the Hook structs: cursor and counter (None before built)
    pc,        \* position of every thread
    loc,       \* locals of the call a thread is in
    setters,   \* the set_value closures returned so far
    fail,      \* per thread: the call that panicked, once one has
    firstTy,   \* history: type of the value appended at each index
    firstVal,  \* history: the values appended, kept until a setter is invoked
    latest,    \* history: per index, value of the last lock-ordered write
    snap,      \* history: slot contents when the thread last took the mutex
    nSet,      \* history: setter invocations started, counted up to MaxSets
    kind,      \* which call a thread is in: "use" (use_state) or "set"
    born       \* history: per Hook, the counter it was built with and the
               \* slots left at its cursor by Hooks dropped before it

vars == <<tree, mutex, hooks, pc, loc, setters, fail, firstTy, firstVal, latest, snap,
          nSet, kind, born>>

\* ---------------------------------------------------------------- types
\* #[derive(Default)] State: an unlocked, unpoisoned RwLock around Vec::new()
StateDefault ==
    [registers |-> <<>>, writer |-> None, readers |-> {}, poisoned |-> FALSE]

\* #[derive(Default)] StateTree
StateTreeDefault ==
    [state |-> StateDefault, children |-> <<>>, cursor |-> 0]

\* lazy_static STATE_TREE: Mutex::new(StateTree::default())
MutexDefault == [holder |-> None, poisoned |-> FALSE]

NoFail == [kind |-> None, ty |-> None, index |-> 0, pre |-> None,
           out |-> None, app |-> FALSE, same |-> TRUE]

NoLoc == [cursor |-> <<>>, index |-> 0, value |-> NoVal, head |-> 0,
          pre |-> None, result |-> NoVal, app |-> FALSE]

\* ---------------------------------------------------------------- StateTree
\* StateTree::get_state: the State a cursor leads to, or the index-out-of-
\* bounds panic of self.children[cursor[0]].
RECURSIVE get_state(_, _)
get_state(t, cursor) ==
    IF cursor = <<>>
    THEN [ok |-> TRUE, state |-> t.state]
    ELSE IF cursor[1] + 1 > Len(t.children)
         THEN [ok |-> FALSE, state |-> StateDefault]
         ELSE get_state(t.children[cursor[1] + 1], Tail(cursor))

\* The tree with the State at cursor replaced (a write through the &State
\* that get_state returned; only called where get_state succeeded).
RECURSIVE with_state(_, _, _)
with_state(t, cursor, s) ==
    IF cursor = <<>>
    THEN [t EXCEPT !.state = s]
    ELSE [t EXCEPT !.children[cursor[1] + 1] =
              with_state(@, Tail(cursor), s)]

\* The slot contents of a tree, without its locks.
RECURSIVE Slots(_)
Slots(t) ==
    [registers |-> t.state.registers,
     children |-> [i \in 1..Len(t.children) |-> Slots(t.children[i])]]

NoSnap == [registers |-> <<>>, children |-> <<>>]

\* RwLock::read / RwLock::write can be taken
CanRead(s) == s.writer = None
CanWrite(s) == s.writer = None /\ s.readers = {}

\* (variant: a lock that does not exclude)
CanLock_open(p) == TRUE

\* Mutex::lock can be taken by a thread
CanLock(p) == mutex.holder = None

\* (variant: a downcast that accepts any type)
downcast_any(box, ty) == TRUE

\* downcast_ref::<T>() is Some
downcast_ok(box, ty) == box.ty = ty

\* (variant: the assertion left out)
order_unchecked(index, head) == TRUE

\* assert!(index <= head)
order_ok(index, head) == index <= head

\* (variant: the push done on every request)
must_push_always(index, head) == TRUE

\* if head == index { push }
must_push(index, head) == head = index

\* (variant: the value passed in is handed back)
read_passed(registers, index, value) == value

\* the value State::use_state hands back: a clone of the stored slot
read_slot(registers, index, value) == registers[index + 1]

\* (variant: the write lands on the first slot)
write_first(registers, index, value) == [registers EXCEPT ![1] = value]

\* (variant: the write replaces every slot)
write_all(registers, index, value) == [j \in DOMAIN registers |-> value]

\* registers[index] = Box::new(value)
write_slot(registers, index, value) ==
    [registers EXCEPT ![index + 1] = value]

\* (variant: a closure that accepts a value of any type)
SetterArgs_untyped(f) == AnyBox

\* the arguments a set_value closure accepts: values of its type T
SetterArgs(f) == {v \in AnyBox : v.ty = f.ty}

\* ---------------------------------------------------------------- Init
Init ==
    /\ tree = StateTreeDefault
    /\ mutex = MutexDefault
    /\ hooks = [h \in Procs |-> [cursor |-> <<>>, counter |-> 0, st |-> None]]
    /\ pc = [p \in Procs |-> "idle"]
    /\ kind = [p \in Procs |-> None]
    /\ loc = [p \in Procs |-> NoLoc]
    /\ setters = {}
    /\ fail = [p \in Procs |-> NoFail]
    /\ firstTy = <<>>
    /\ firstVal = <<>>
    /\ latest = <<>>
    /\ snap = [p \in Procs |-> NoSnap]
    /\ nSet = 0
    /\ born = [h \in Procs |-> [start |-> 0, prior |-> 0]]

\* ---------------------------------------------------------------- panics
\* (variant: a mutex that is released by a panic without being poisoned)
unwind_release(m, p) ==
    IF m.holder = p THEN [m EXCEPT !.holder = None] ELSE m

\* The Mutex after thread p unwinds: dropping the MutexGuard during a panic
\* releases and poisons it.
unwind_mutex(m, p) ==
    IF m.holder = p THEN [holder |-> None, poisoned |-> TRUE] ELSE m

\* Unwinding of thread p out of the tree t (the tree with the guards p holds
\* at the panic): its guards are dropped; the Mutex is poisoned when its
\* guard is dropped by the unwinding, a RwLock when its write guard is.
UnwindFrom(p, err, t) ==
    /\ pc' = [pc EXCEPT ![p] = "panicked"]
    /\ mutex' = unwind_mutex(mutex, p)
    /\ LET r == get_state(t, loc[p].cursor)
       IN  IF r.ok /\ (r.state.writer = p \/ p \in r.state.readers)
           THEN tree' = with_state(t, loc[p].cursor,
                          [r.state EXCEPT
                              !.poisoned = @ \/ (r.state.writer = p),
                              !.writer = IF @ = p THEN None ELSE @,
                              !.readers = @ \ {p}])
           ELSE tree' = t
    /\ fail' = [fail EXCEPT ![p] =
                  [kind |-> kind[p], ty |-> loc[p].value.ty,
                   index |-> loc[p].index, pre |-> loc[p].pre, out |-> err,
                   app |-> loc[p].app,
                   same |-> (mutex.holder = p => Slots(tree) = snap[p])]]
    /\ kind' = [kind EXCEPT ![p] = None]
    /\ loc' = [loc EXCEPT ![p] = NoLoc]
    /\ snap' = [snap EXCEPT ![p] = NoSnap]

\* A panic of thread p with the guards the tree records for it.
Unwind(p, err) == UnwindFrom(p, err, tree)

\* ---------------------------------------------------------------- Hook
\* A Hook is built: Hook::default() is (cursor [], counter 0); the fields
\* are plain and can be given other values by a struct literal.
NewHook(h, cur, cnt) ==
    /\ pc[h] = "idle"
    /\ hooks[h].st = None
    /\ hooks' = [hooks EXCEPT ![h] =
                   [cursor |-> cur, counter |-> cnt, st |-> "live"]]
    /\ born' = [born EXCEPT ![h] =
                  [start |-> cnt,
                   prior |-> IF \E g \in Procs : /\ hooks[g].st = "dropped"
                                                /\ hooks[g].cursor = cur
                                                /\ born[g].start = 0
                             THEN Len(get_state(tree, cur).state.registers)
                             ELSE 0]]
    /\ UNCHANGED <<tree, mutex, pc, kind, loc, setters, fail, firstTy, firstVal, latest, snap,
                   nSet>>

\* (variant: the index is read after the counter is incremented)
Call_late(h, v) ==
    /\ pc[h] = "idle"
    /\ hooks[h].st = "live"
    /\ hooks[h].counter < MaxCounter
    /\ kind' = [kind EXCEPT ![h] = "use"]
    /\ loc' = [loc EXCEPT ![h] = [NoLoc EXCEPT !.cursor = hooks[h].cursor,
                                              !.index = hooks[h].counter + 1,
                                              !.value = v]]
    /\ hooks' = [hooks EXCEPT ![h].counter = @ + 1]
    /\ pc' = [pc EXCEPT ![h] = "lock"]
    /\ UNCHANGED <<tree, mutex, setters, fail, firstTy, firstVal, latest, snap, nSet, born>>

\* Hook::use_state, lines 136-139: index = counter; counter += 1
Call(h, v) ==
    /\ pc[h] = "idle"
    /\ hooks[h].st = "live"
    /\ hooks[h].counter < MaxCounter
    /\ kind' = [kind EXCEPT ![h] = "use"]
    /\ loc' = [loc EXCEPT ![h] = [NoLoc EXCEPT !.cursor = hooks[h].cursor,
                                              !.index = hooks[h].counter,
                                              !.value = v]]
    /\ hooks' = [hooks EXCEPT ![h].counter = @ + 1]
    /\ pc' = [pc EXCEPT ![h] = "lock"]
    /\ UNCHANGED <<tree, mutex, setters, fail, firstTy, firstVal, latest, snap, nSet,
                   born>>

\* STATE_TREE.lock().expect(..), line 142 (and line 151 for a setter)
Lock(p) ==
    /\ pc[p] = "lock"
    /\ CanLock(p)
    /\ IF mutex.poisoned
       THEN /\ Unwind(p, "PoisonError")
            /\ UNCHANGED latest
       ELSE /\ mutex' = [mutex EXCEPT !.holder = p]
            /\ pc' = [pc EXCEPT ![p] = "resolve"]
            /\ snap' = [snap EXCEPT ![p] = Slots(tree)]
            /\ latest' = IF kind[p] = "set" /\ loc[p].index < Len(latest)
                         THEN [latest EXCEPT ![loc[p].index + 1] =
                                  loc[p].value]
                         ELSE latest
            /\ UNCHANGED <<kind, tree, fail, loc>>
    /\ UNCHANGED <<hooks, setters, firstTy, firstVal, nSet, born>>

\* (variant: a missing first child is created on demand)
Resolve_grow(p) ==
    /\ pc[p] = "resolve"
    /\ pc' = [pc EXCEPT ![p] = IF kind[p] = "use" THEN "enter" ELSE "write"]
    /\ tree' = IF get_state(tree, loc[p].cursor).ok
               THEN tree
               ELSE [tree EXCEPT !.children = <<StateTreeDefault>>]
    /\ UNCHANGED <<kind, snap, mutex, fail, loc>>
    /\ UNCHANGED <<hooks, setters, firstTy, firstVal, latest, nSet,
                   born>>

\* tree.get_state(&cursor), line 143 (and line 152 for a setter)
Resolve(p) ==
    /\ pc[p] = "resolve"
    /\ IF get_state(tree, loc[p].cursor).ok
       THEN /\ pc' = [pc EXCEPT ![p] = IF kind[p] = "use" THEN "enter"
                                                      ELSE "write"]
            /\ UNCHANGED <<kind, snap, tree, mutex, fail, loc>>
       ELSE Unwind(p, "IndexOutOfBounds")
    /\ UNCHANGED <<hooks, setters, firstTy, firstVal, latest, nSet, born>>

\* (variant: the read guard of the length is kept, as without the block
\* around lines 93-94)
Enter_hold(h) ==
    LET s == get_state(tree, loc[h].cursor).state
        head == Len(s.registers)
    IN
    /\ pc[h] = "enter"
    /\ CanRead(s)
    /\ IF s.poisoned
       THEN Unwind(h, "PoisonError")
       ELSE IF ~order_ok(loc[h].index, head)
       THEN Unwind(h, "OrderViolation")
       ELSE /\ loc' = [loc EXCEPT
                 ![h].head = head,
                 ![h].pre = IF loc[h].index < head
                            THEN s.registers[loc[h].index + 1].ty
                            ELSE None]
            /\ pc' = [pc EXCEPT ![h] =
                        IF must_push(loc[h].index, head)
                        THEN "push" ELSE "read"]
            /\ tree' = with_state(tree, loc[h].cursor,
                                  [s EXCEPT !.readers = @ \cup {h}])
            /\ UNCHANGED <<kind, snap, mutex, fail>>
    /\ UNCHANGED <<hooks, setters, firstTy, firstVal, latest, nSet,
                   born>>

\* State::use_state, lines 92-100: head = registers.read().len();
\* assert!(index <= head); the branch on head == index
Enter(h) ==
    LET s == get_state(tree, loc[h].cursor).state
        head == Len(s.registers)
    IN
    /\ pc[h] = "enter"
    /\ CanRead(s)
    /\ IF s.poisoned
       THEN Unwind(h, "PoisonError")
       ELSE IF ~order_ok(loc[h].index, head)
       THEN Unwind(h, "OrderViolation")
       ELSE /\ loc' = [loc EXCEPT
                 ![h].head = head,
                 ![h].pre = IF loc[h].index < head
                            THEN s.registers[loc[h].index + 1].ty
                            ELSE None]
            /\ pc' = [pc EXCEPT ![h] =
                        IF must_push(loc[h].index, head)
                        THEN "push" ELSE "read"]
            /\ UNCHANGED <<kind, snap, tree, mutex, fail>>
    /\ UNCHANGED <<hooks, setters, firstTy, firstVal, latest, nSet, born>>

\* State::use_state, lines 101-102: registers.write().push(Box::new(value))
Push(h) ==
    LET s == get_state(tree, loc[h].cursor).state IN
    /\ pc[h] = "push"
    /\ CanWrite(s)
    /\ IF s.poisoned
       THEN /\ Unwind(h, "PoisonError")
            /\ UNCHANGED <<firstTy, firstVal, latest>>
       ELSE /\ tree' = with_state(tree, loc[h].cursor,
                  [s EXCEPT !.registers = Append(@, loc[h].value)])
            /\ loc' = [loc EXCEPT ![h].app = TRUE]
            /\ firstTy' = Append(firstTy, loc[h].value.ty)
            /\ firstVal' = IF nSet = 0 THEN Append(firstVal, loc[h].value)
                                       ELSE firstVal
            /\ latest' = Append(latest, loc[h].value)
            /\ pc' = [pc EXCEPT ![h] = "read"]
            /\ UNCHANGED <<kind, snap, mutex, fail>>
    /\ UNCHANGED <<hooks, setters, nSet, born>>

\* State::use_state, lines 106-116: registers.read(), state[index],
\* downcast_ref::<T>() or panic, clone
Read(h) ==
    LET s == get_state(tree, loc[h].cursor).state
        i == loc[h].index
    IN
    /\ pc[h] = "read"
    /\ CanRead(s)
    /\ IF s.poisoned
       THEN Unwind(h, "PoisonError")
       ELSE IF i >= Len(s.registers)
       THEN Unwind(h, "IndexOutOfBounds")
       ELSE IF ~downcast_ok(s.registers[i + 1], loc[h].value.ty)
       THEN Unwind(h, "TypeMismatch")
       ELSE /\ tree' = with_state(tree, loc[h].cursor,
                          [s EXCEPT !.readers = @ \cup {h}])
            /\ loc' = [loc EXCEPT
                 ![h].result = read_slot(s.registers, i, loc[h].value)]
            /\ pc' = [pc EXCEPT ![h] = "ret"]
            /\ UNCHANGED <<kind, snap, mutex, fail>>
    /\ UNCHANGED <<hooks, setters, firstTy, firstVal, latest, nSet, born>>

\* (variant: the closure captures the counter after its increment)
set_value_next(cursor, index, ty) ==
    [cursor |-> cursor, index |-> index + 1, ty |-> ty]

\* the set_value closure, lines 148-160: it captures a clone of the cursor
\* and the index, and takes values of the type T of the request
set_value(cursor, index, ty) ==
    [cursor |-> cursor, index |-> index, ty |-> ty]

\* Hook::use_state, lines 117 and 148-163: the read guard is dropped, the
\* closure is built over (cursor, index) and T, the mutex guard is dropped.
Return(h) ==
    LET s == get_state(tree, loc[h].cursor).state IN
    /\ pc[h] = "ret"
    /\ tree' = with_state(tree, loc[h].cursor,
                          [s EXCEPT !.readers = @ \ {h}])
    /\ mutex' = [mutex EXCEPT !.holder = None]
    /\ setters' = setters \cup {set_value(loc[h].cursor, loc[h].index,
                                           loc[h].value.ty)}
    /\ kind' = [kind EXCEPT ![h] = None]
    /\ loc' = [loc EXCEPT ![h] = NoLoc]
    /\ snap' = [snap EXCEPT ![h] = NoSnap]
    /\ pc' = [pc EXCEPT ![h] = "idle"]
    /\ UNCHANGED <<hooks, fail, firstTy, firstVal, latest, nSet, born>>

\* The invocation that owned the Hook ends; its setters stay callable.
DropHook(h) ==
    /\ pc[h] = "idle"
    /\ hooks[h].st = "live"
    /\ hooks' = [hooks EXCEPT ![h].st = "dropped"]
    /\ UNCHANGED <<tree, mutex, pc, kind, loc, setters, fail, firstTy, firstVal, latest,
                   snap, nSet, born>>

\* ---------------------------------------------------------------- setter
\* A thread invokes a set_value closure f with a value of its type; a closure
\* is Fn and can be invoked any number of times.
SetCall(s, f, v) ==
    /\ pc[s] = "idle"
    /\ f \in setters
    /\ v \in SetterArgs(f)
    /\ loc' = [loc EXCEPT ![s] = [NoLoc EXCEPT !.cursor = f.cursor,
                                              !.index = f.index,
                                              !.value = v]]
    /\ nSet' = IF nSet < MaxSets THEN nSet + 1 ELSE nSet
    /\ firstVal' = <<>>
    /\ kind' = [kind EXCEPT ![s] = "set"]
    /\ pc' = [pc EXCEPT ![s] = "lock"]
    /\ UNCHANGED <<tree, mutex, hooks, setters, fail, firstTy, latest,
                   snap, born>>

\* set_value, lines 154-159: state.registers.write().expect(..) and the
\* assignment to registers[index]; an index beyond the Vec panics at line
\* 159 under the write guard of lines 154-157, which poisons the RwLock
Write(s) ==
    LET st == get_state(tree, loc[s].cursor).state IN
    /\ pc[s] = "write"
    /\ CanWrite(st)
    /\ IF st.poisoned
       THEN Unwind(s, "PoisonError")
       ELSE IF loc[s].index >= Len(st.registers)
       THEN UnwindFrom(s, "IndexOutOfBounds",
                       with_state(tree, loc[s].cursor,
                                  [st EXCEPT !.writer = s]))
       ELSE /\ tree' = with_state(tree, loc[s].cursor,
                  [st EXCEPT !.writer = s,
                             !.registers =
                                 write_slot(@, loc[s].index, loc[s].value)])
            /\ loc' = [loc EXCEPT ![s].app = TRUE]
            /\ pc' = [pc EXCEPT ![s] = "unlock"]
            /\ UNCHANGED <<kind, snap, mutex, fail>>
    /\ UNCHANGED <<hooks, setters, firstTy, firstVal, latest, nSet, born>>

\* set_value, line 160: registers and tree guards are dropped
Unlock(s) ==
    LET st == get_state(tree, loc[s].cursor).state IN
    /\ pc[s] = "unlock"
    /\ tree' = with_state(tree, loc[s].cursor, [st EXCEPT !.writer = None])
    /\ mutex' = [mutex EXCEPT !.holder = None]
    /\ kind' = [kind EXCEPT ![s] = None]
    /\ loc' = [loc EXCEPT ![s] = NoLoc]
    /\ snap' = [snap EXCEPT ![s] = NoSnap]
    /\ pc' = [pc EXCEPT ![s] = "idle"]
    /\ UNCHANGED <<hooks, setters, fail, firstTy, firstVal, latest, nSet, born>>

\* ---------------------------------------------------------------- Next
Next ==
    \/ \E h \in Procs, cur \in Paths, cnt \in Starts : NewHook(h, cur, cnt)
    \/ \E h \in Procs, v \in AnyBox : Call(h, v)
    \/ \E p \in Procs : Lock(p)
    \/ \E p \in Procs : Resolve(p)
    \/ \E h \in Procs : Enter(h)
    \/ \E h \in Procs : Push(h)
    \/ \E h \in Procs : Read(h)
    \/ \E h \in Procs : Return(h)
    \/ \E h \in Procs : DropHook(h)
    \/ \E s \in Procs, f \in setters, v \in AnyBox : SetCall(s, f, v)
    \/ \E s \in Procs : Write(s)
    \/ \E s \in Procs : Unlock(s)

Spec == Init /\ [][Next]_vars

\* The steps of a call after its lock request.
Inner(p) ==
    \/ Resolve(p) \/ Enter(p) \/ Push(p) \/ Read(p) \/ Return(p)
    \/ Write(p) \/ Unlock(p)

\* Fair scheduling: a thread that can take the next step of its call takes
\* it, and a thread blocked in STATE_TREE.lock() gets the Mutex when it stays
\* free.  std::sync::Mutex promises no order among waiters: a waiter that
\* finds the Mutex taken again and again has no claim to it.
FairSpec ==
    /\ Init /\ [][Next]_vars
    /\ \A p \in Procs : WF_vars(Inner(p)) /\ WF_vars(Lock(p))

\* ---------------------------------------------------------------- claims
\* the State a thread's cursor leads to, and the root store
StateOf(p) == get_state(tree, loc[p].cursor).state
Root == tree.state.registers
Failed(p) == fail[p].out # None

\* C1: recovery idempotence.  While no setter has been invoked, every
\* request that returns at index k returns the initial value of the request
\* that appended slot k: a Hook replaying the requests of an earlier Hook
\* gets that Hook's v1..vn, whatever initial values it passes itself.
RecoveryIdempotence ==
    \A h \in Procs :
        (pc[h] = "ret" /\ nSet = 0) =>
            /\ loc[h].index < Len(firstVal)
            /\ loc[h].result = firstVal[loc[h].index + 1]

\* a Hook built with counter 0 replays the second request with another
\* initial value and is about to get the first Hook's value back
RecoveryWitness ==
    \E h \in Procs :
        /\ pc[h] = "ret" /\ nSet = 0 /\ born[h].start = 0
        /\ loc[h].index = 1 /\ ~loc[h].app
        /\ loc[h].value # loc[h].result
        /\ loc[h].result = firstVal[2]

\* C2: set-then-recover.  Every request that returns at index k returns the
\* value most recently passed to a setter of index k (setters ordered by
\* their acquisition of STATE_TREE), or the initial value stored at k when
\* no setter of k was invoked.
SetThenRecover ==
    \A h \in Procs :
        pc[h] = "ret" =>
            /\ loc[h].index < Len(latest)
            /\ loc[h].result = latest[loc[h].index + 1]

\* a replayed request is about to return a value that a setter wrote, after
\* the Hook that produced the setter was dropped: the store holds one slot
\* and every setter invocation made has completed, so each has written it
SetThenRecoverWitness ==
    \E h \in Procs :
        /\ pc[h] = "ret" /\ ~loc[h].app /\ nSet = MaxSets
        /\ Len(Root) = 1 /\ loc[h].index = 0
        /\ \A p \in Procs : kind[p] # "set" /\ ~Failed(p)
        /\ loc[h].result # loc[h].value
        /\ \E g \in Procs \ {h} : hooks[g].st = "dropped"

\* C3: type sensitivity.  A request that finds a slot of another type at its
\* index panics with the type mismatch and returns nothing; a returned value
\* always has the requested type; and a set_value closure only exists for
\* the type its slot holds, so no set with another type can be made.
TypeSensitivity ==
    /\ \A h \in Procs :
          /\ (pc[h] \in {"read", "push", "ret"} /\ loc[h].pre # None
                  /\ loc[h].pre # loc[h].value.ty) => pc[h] = "read"
          /\ pc[h] = "ret" => loc[h].result.ty = loc[h].value.ty
          /\ (fail[h].kind = "use" /\ fail[h].pre # None
                  /\ fail[h].pre # fail[h].ty) =>
                 (fail[h].out = "TypeMismatch" /\ ~fail[h].app)
    /\ \A f \in setters :
          LET r == get_state(tree, f.cursor) IN
          /\ r.ok
          /\ f.index < Len(r.state.registers)
          /\ r.state.registers[f.index + 1].ty = f.ty

TypeMismatchWitness ==
    \E h \in Procs :
        /\ fail[h].out = "TypeMismatch"
        /\ fail[h].pre \in Types /\ fail[h].ty \in Types
        /\ fail[h].pre # fail[h].ty

\* C4: a slot's type is fixed.  In every state every slot holds a value of
\* the type of the value first appended at its index.
SlotTypeFixed ==
    /\ Len(Root) = Len(firstTy)
    /\ \A i \in 1..Len(Root) : Root[i].ty = firstTy[i]

\* a setter has overwritten a slot with another value of the slot's type
SlotOverwrittenWitness ==
    \E s \in Procs :
        LET i == loc[s].index + 1 IN
        /\ kind[s] = "set" /\ pc[s] = "unlock" /\ nSet = MaxSets
        /\ Root[i] = loc[s].value
        /\ Root[i] # snap[s].registers[i]
        /\ Root[i].ty = firstTy[i]

\* C5 (as claimed): a Hook built with counter 0 at a cursor where dropped
\* Hooks left n >= 1 slots gets no value for a request beyond those n slots:
\* issuing more requests than the earlier invocation is an order violation
\* and allocates no slot.
ReuseContract ==
    \A h \in Procs :
        (born[h].start = 0 /\ born[h].prior > 0 /\ kind[h] = "use") =>
            /\ pc[h] = "ret" => loc[h].index < born[h].prior
            /\ loc[h].app => loc[h].index < born[h].prior

\* C6: a request whose index is above the length of the store panics on the
\* order assertion; nothing is appended and nothing is returned.
OrderFault ==
    [][\A h \in Procs :
          (/\ pc[h] = "enter"
           /\ loc[h].index > Len(StateOf(h).registers)
           /\ pc'[h] # "enter")
          => /\ pc'[h] = "panicked"
             /\ fail'[h].out = "OrderViolation"
             /\ Slots(tree') = Slots(tree)]_vars

OrderFaultWitness ==
    \E h \in Procs :
        /\ fail[h].out = "OrderViolation"
        /\ fail[h].index > 0

\* C7: no partial mutation.  When a request or a set has panicked, the slots
\* of the tree are what they were when the call took STATE_TREE.
NoPartialMutation ==
    \A p \in Procs : Failed(p) => (fail[p].same /\ ~fail[p].app)

\* a request failed on a store that already held slots
FailedOnFilledStoreWitness ==
    \E p \in Procs :
        /\ fail[p].out \in {"OrderViolation", "TypeMismatch"}
        /\ fail[p].same
        /\ Len(Root) > 0

\* C8: writers of one slot.  The critical sections of set_value invocations
\* exclude each other, and whenever no invocation is inside one, every slot
\* holds the value of the last invocation to have taken the lock.
InSet(p) == kind[p] = "set" /\ pc[p] \in {"resolve", "write", "unlock"}

SameSlotWriters ==
    /\ \A p, q \in Procs : (InSet(p) /\ InSet(q)) => p = q
    /\ (\A p \in Procs : ~InSet(p)) =>
           \A i \in 1..Len(Root) : Root[i] = latest[i]

\* one thread has written a slot and holds the lock while a second thread
\* waits to write another value to the same slot
SameSlotWitness ==
    \E p, q \in Procs :
        /\ kind[p] = "set" /\ pc[p] = "unlock"
        /\ kind[q] = "set" /\ pc[q] = "lock"
        /\ loc[p].index = loc[q].index /\ loc[p].cursor = loc[q].cursor
        /\ loc[p].value # loc[q].value

\* C9 (as claimed): resolving a cursor never ends in an out-of-bounds access
\* of a child list.
ResolveNeverFaults ==
    \A p \in Procs : fail[p].out # "IndexOutOfBounds"

\* C10 (as claimed): a thread that holds a guard of a store's RwLock does
\* not hold STATE_TREE.
ShapeLockReleased ==
    \A p \in Procs :
        (StateOf(p).writer = p \/ p \in StateOf(p).readers) =>
            mutex.holder # p

\* the threads inside a call that holds STATE_TREE
InCall(p) == pc[p] \in {"resolve", "enter", "push", "read", "ret", "write",
                        "unlock"}

\* C11: setter frame.  From taking STATE_TREE to releasing it a set_value
\* invocation changes nothing but the value of its own slot: the length of
\* the store, the other slots and the other stores are as it found them.
SetterFrame ==
    \A s \in Procs :
        kind[s] = "set" =>
            /\ pc[s] \in {"resolve", "write"} => Slots(tree) = snap[s]
            /\ pc[s] = "unlock" =>
                 /\ loc[s].index < Len(snap[s].registers)
                 /\ Slots(tree) =
                      [snap[s] EXCEPT !.registers[loc[s].index + 1] =
                                          loc[s].value]

\* a setter has changed the second of two slots
SetterFrameWitness ==
    \E s \in Procs :
        /\ kind[s] = "set" /\ pc[s] = "unlock"
        /\ Len(Root) = 2 /\ loc[s].index = 1
        /\ Root[2] # snap[s].registers[2]
        /\ Root[1] = snap[s].registers[1]

\* C12: append-only growth.  No step shortens the store; a step lengthens
\* it by one slot only as the push of a request whose index is the length,
\* and the slot holds that request's initial value.  A request that returns
\* has appended exactly when its index was the length it found, and then it
\* returns its own initial value; a set_value leaves the length alone.
GrowthAfterCall ==
    \A p \in Procs :
        /\ (kind[p] = "use" /\ pc[p] = "ret") =>
             /\ loc[p].app <=> (loc[p].index = Len(snap[p].registers))
             /\ Len(Root) = Len(snap[p].registers)
                               + (IF loc[p].app THEN 1 ELSE 0)
             /\ loc[p].app => /\ loc[p].result = loc[p].value
                              /\ Root[loc[p].index + 1] = loc[p].value
        /\ (kind[p] = "set" /\ pc[p] = "unlock") =>
             Len(Root) = Len(snap[p].registers)

AppendOnlyGrowth ==
    [][/\ Len(Root') >= Len(Root)
       /\ Len(Root') # Len(Root) =>
             \E h \in Procs :
                 /\ kind[h] = "use" /\ pc[h] = "push" /\ pc'[h] = "read"
                 /\ loc[h].index = Len(Root)
                 /\ Root' = Append(Root, loc[h].value)
       /\ GrowthAfterCall']_vars

\* a request at the tail is about to return its own value from its new slot,
\* after a request below the tail of the same store and a completed setter
\* invocation
AppendWitness ==
    \E h \in Procs :
        /\ kind[h] = "use" /\ pc[h] = "ret" /\ loc[h].app
        /\ loc[h].index = 1 /\ Len(Root) = 2
        /\ nSet > 0 /\ \A p \in Procs : kind[p] # "set" /\ ~Failed(p)

\* C13: the tree does not grow.  The root never gets a child; the empty
\* cursor resolves to the root's State and no other cursor resolves, so a
\* call with a non-empty cursor never gets past get_state.
NonGrowingTree ==
    /\ tree.children = <<>>
    /\ get_state(tree, <<>>).ok
    /\ get_state(tree, <<>>).state = tree.state
    /\ \A cur \in Paths \ {<<>>} : ~get_state(tree, cur).ok
    /\ \A p \in Procs :
          /\ (InCall(p) /\ pc[p] # "resolve") => loc[p].cursor = <<>>
          /\ (hooks[p].cursor # <<>> /\ fail[p].kind = "use") =>
                 fail[p].out \in {"IndexOutOfBounds", "PoisonError"}
    /\ \A f \in setters : f.cursor = <<>>

\* a request of a Hook with cursor [0] has failed in get_state while the
\* root store held a slot
UnresolvedChildWitness ==
    \E p \in Procs :
        /\ hooks[p].cursor = <<0>>
        /\ fail[p].kind = "use" /\ fail[p].out = "IndexOutOfBounds"
        /\ Len(Root) > 0

\* C14: a Hook built with counter 0 never trips the order assertion.  Its
\* request in flight uses the index counter - 1, which is at most the length
\* of its store up to the assertion; between requests its counter is at most
\* that length; and none of its requests fails with the order violation.
CounterWithinStore ==
    \A h \in Procs :
        (hooks[h].st # None /\ born[h].start = 0) =>
            /\ kind[h] = "use" =>
                 /\ loc[h].index = hooks[h].counter - 1
                 /\ loc[h].cursor = hooks[h].cursor
                 /\ (pc[h] \in {"lock", "resolve", "enter"}
                         /\ hooks[h].cursor = <<>>) =>
                        loc[h].index <= Len(Root)
            /\ (pc[h] = "idle" /\ hooks[h].cursor = <<>>) =>
                 hooks[h].counter <= Len(Root)
            /\ fail[h].kind = "use" => fail[h].out # "OrderViolation"

\* a Hook built with counter 0 makes its second request at the length of
\* the store while another Hook built with counter 0 waits with the same
\* index
CounterWitness ==
    \E h, g \in Procs :
        /\ h # g
        /\ born[h].start = 0 /\ born[g].start = 0
        /\ hooks[h].cursor = <<>> /\ hooks[g].cursor = <<>>
        /\ kind[h] = "use" /\ pc[h] = "enter"
        /\ loc[h].index = 1 /\ Len(Root) = 1
        /\ kind[g] = "use" /\ pc[g] = "lock" /\ loc[g].index = 1

\* C15: a request is atomic.  At most one thread is between taking and
\* releasing STATE_TREE, and it is the holder; what a request finds in the
\* tree during its length check, push and read is what it found when it took
\* the lock plus its own push, so of two requests for the same missing index
\* one appends and the other reads, and a request that appended returns its
\* own initial value.
AtomicRequest ==
    /\ \A p, q \in Procs : (InCall(p) /\ InCall(q)) => p = q
    /\ \A p \in Procs : InCall(p) <=> mutex.holder = p
    /\ \A h \in Procs :
          (kind[h] = "use" /\ InCall(h)) =>
              /\ Slots(tree).children = snap[h].children
              /\ Root = IF loc[h].app
                        THEN Append(snap[h].registers, loc[h].value)
                        ELSE snap[h].registers
              /\ loc[h].app => pc[h] \in {"read", "ret"}
              /\ (pc[h] = "ret" /\ loc[h].app) =>
                     loc[h].result = loc[h].value
    /\ Len(Root) = Len(firstTy)

\* a request has appended a slot and is about to return its own value while
\* a request of the other Hook for the same index waits for the lock
AtomicWitness ==
    \E h, g \in Procs :
        /\ h # g
        /\ kind[h] = "use" /\ pc[h] = "ret" /\ loc[h].app
        /\ kind[g] = "use" /\ pc[g] = "lock"
        /\ loc[g].index = loc[h].index /\ loc[g].cursor = loc[h].cursor
        /\ loc[g].value # loc[h].value

\* C16: failure is sticky.  A request that panicked inside State::use_state
\* (order assertion or downcast) has poisoned STATE_TREE; once the mutex is
\* poisoned it stays poisoned, no thread is inside a call, every call that
\* reaches the lock panics there, and no slot and no closure is added or
\* changed.
PoisonedBy(p) ==
    fail[p].out \in {"OrderViolation", "TypeMismatch"} => mutex.poisoned

StickyFailure ==
    [][/\ \A p \in Procs : PoisonedBy(p)'
       /\ mutex.poisoned =>
            /\ mutex'.poisoned
            /\ mutex.holder = None /\ mutex'.holder = None
            /\ \A p \in Procs : ~InCall(p) /\ ~InCall(p)'
            /\ Slots(tree') = Slots(tree)
            /\ setters' = setters
            /\ \A p \in Procs :
                  (pc[p] = "lock" /\ pc'[p] # "lock") =>
                      /\ pc'[p] = "panicked"
                      /\ fail'[p].out = "PoisonError"
                      /\ ~fail'[p].app]_vars

\* after a request failed on its type, a set_value invocation of the other
\* thread has failed on the poisoned lock and the store still holds its slot
StickyWitness ==
    \E p, q \in Procs :
        /\ fail[p].kind = "use" /\ fail[p].out = "TypeMismatch"
        /\ fail[q].kind = "set" /\ fail[q].out = "PoisonError"
        /\ Len(Root) > 0

\* C17: every set_value closure refers to an existing slot.  The cursor of
\* each closure resolves and its index is below the length of that store, in
\* every state; so an invocation, however late, finds its slot and never
\* fails on the index.
SetterSlotExists ==
    /\ \A f \in setters :
          /\ get_state(tree, f.cursor).ok
          /\ f.index < Len(get_state(tree, f.cursor).state.registers)
    /\ \A s \in Procs :
          /\ kind[s] = "set" =>
                /\ get_state(tree, loc[s].cursor).ok
                /\ loc[s].index < Len(StateOf(s).registers)
          /\ fail[s].kind = "set" => fail[s].out = "PoisonError"

\* the closure of the second slot is invoked after both Hooks are gone
LateSetterWitness ==
    \E s \in Procs :
        /\ kind[s] = "set" /\ pc[s] = "write" /\ loc[s].index = 1
        /\ \A g \in Procs : hooks[g].st = "dropped"

\* the calls that have started and neither returned nor panicked
Started(p) == pc[p] \notin {"idle", "panicked"}

\* thread p holds a read or write guard of the RwLock of some store of t
RECURSIVE GuardIn(_, _)
GuardIn(t, p) ==
    \/ t.state.writer = p
    \/ p \in t.state.readers
    \/ \E i \in 1..Len(t.children) : GuardIn(t.children[i], p)

\* thread p holds a guard of a store's RwLock, at whatever node
HoldsGuard(p) == GuardIn(tree, p)

LockOrder ==
    /\ \A p \in Procs :
          /\ HoldsGuard(p) => mutex.holder = p
          /\ pc[p] = "lock" => (mutex.holder # p /\ ~HoldsGuard(p))
    /\ (\E p \in Procs : Started(p)) =>
           \E p \in Procs : ENABLED (Lock(p) \/ Inner(p))

\* C18 (as claimed): no deadlock.  A thread that asks for STATE_TREE holds
\* no lock, a guard of a store's RwLock is only held by the holder of
\* STATE_TREE, whenever a call is in progress some thread can take a step of
\* its call, and under fair scheduling every call that has started returns
\* or panics.
EveryCallCompletes ==
    /\ []LockOrder
    /\ \A p \in Procs : Started(p) ~> ~Started(p)

\* C18 (amended): no deadlock.  The lock order and the enabled step as
\* above; under fair scheduling every call that has taken STATE_TREE returns
\* or panics, and while a call waits for STATE_TREE some call takes it (the
\* waiting call or another one) or the waiting call panics on the poisoned
\* Mutex.
DeadlockFree ==
    /\ []LockOrder
    /\ \A p \in Procs : InCall(p) ~> ~InCall(p)
    /\ \A p \in Procs :
          (pc[p] = "lock") ~> (pc[p] = "panicked" \/ \E q \in Procs : InCall(q))

\* a thread waits for STATE_TREE while the other holds it together with the
\* write guard of the store
BlockedWitness ==
    \E p, q \in Procs :
        /\ pc[p] = "lock" /\ mutex.holder = q
        /\ tree.state.writer = q
        /\ kind[p] = "use"

====
